---- MODULE Spec2Model ----
(***************************************************************************)
(* Model of the iRedAPD throttling plugin (plugins/throttling.py).         *)
(*                                                                         *)
(* The persistent state is the two tables throttle_sender and              *)
(* throttle_rcpt.  A policy request (restriction) runs apply_throttle on   *)
(* the sender table and then, if that passes, on the recipient table.      *)
(* apply_throttle is a SELECT (Select), then a walk over the fetched rows  *)
(* in descending priority and the UPDATE loop (Evaluate).  Several         *)
(* requests may be in progress at once: each process has its own position  *)
(* (pc, stage), arguments (kwargs), fetched rows (sql_records) and result  *)
(* (action).                                                               *)
(*                                                                         *)
(* convert_throttle_setting_to_dict is a pure function of a settings       *)
(* string; it is modelled on strings as sequences of characters and run    *)
(* by the action Convert of the specification SpecConvert.                 *)
(***************************************************************************)
EXTENDS Integers, Sequences, FiniteSets, TLC

VARIABLES throttle_sender, throttle_rcpt, clock, pc, stage, kwargs, sql_records, action,
          setting, value_is_integer, converted

vars == <<throttle_sender, throttle_rcpt, clock, pc, stage, kwargs, sql_records, action,
          setting, value_is_integer, converted>>
tables == <<throttle_sender, throttle_rcpt>>
\* the argument s and the flag of a call of convert_throttle_setting_to_dict,
\* and what the call has returned
conversion == <<setting, value_is_integer, converted>>

(***************************************************************************)
(* Bounds of the model.                                                    *)
(***************************************************************************)
\* last second of the clock
MaxTime == 4
\* the tracking period of a record that has one
Period == 2
\* the positive value of max_msgs
MaxMsgs == 2
\* the positive value of max_quota, and the size of a large message
MaxSize == 3
\* the longest settings string
MaxLen == 4

Procs == {"p1", "p2"}
SeqProcs == {"p1"}

\* possible values of a limit column: explicit limit, unlimited, inherit
Limits(pos) == {-1, 0, pos}

(***************************************************************************)
(* Verdicts.  The SMTP_ACTIONS keys the plugin returns; "TypeError" is the *)
(* exception that leaves apply_throttle (and restriction) when the UPDATE  *)
(* loop is entered.                                                        *)
(***************************************************************************)
SMTP_PROTOCOL_STATE == {"RCPT", "END-OF-MESSAGE"}
Rejects == {"reject_exceed_max_msgs", "reject_exceed_msg_size", "reject_exceed_max_quota"}

(***************************************************************************)
(* Rows.  A row of a table is a record of the columns the SELECT reads;    *)
(* a table is a function from id to row.                                   *)
(***************************************************************************)
Row(id, user, priority, period, max_msgs, max_quota, msg_size, cur_msgs, cur_quota, init_time) ==
    [id |-> id, user |-> user, priority |-> priority, period |-> period,
     max_msgs |-> max_msgs, max_quota |-> max_quota, msg_size |-> msg_size,
     cur_msgs |-> cur_msgs, cur_quota |-> cur_quota,
     init_time |-> init_time, last_time |-> init_time]

\* WHERE user IN possible_addrs
Matching(table, possible_addrs) == {id \in DOMAIN table : table[id].user \in possible_addrs}

\* ORDER BY priority DESC: every order of the matching rows with non-increasing
\* priority (rows of equal priority come in an order the database chooses)
OrderedRows(table, possible_addrs) ==
    LET ids == Matching(table, possible_addrs)
        n == Cardinality(ids)
    IN {[i \in 1..n |-> table[f[i]]] : f \in
          {g \in [1..n -> ids] :
              /\ \A i, j \in 1..n : i # j => g[i] # g[j]
              /\ \A i, j \in 1..n : i < j => table[g[i]].priority >= table[g[j]].priority}}

(***************************************************************************)
(* apply_throttle: the walk over the fetched rows.                         *)
(* The walk state: ret is the verdict returned from inside the loop        *)
(* ("none" while the loop goes on); cms, cmm, cmq are                      *)
(* continue_check_msg_size, continue_check_max_msgs,                       *)
(* continue_check_max_quota; sets is sql_update_sets (id -> list of        *)
(* staged assignments); t_id is the loop variable t_id.                    *)
(***************************************************************************)
Upd(col, op, val) == [col |-> col, op |-> op, val |-> val]

WalkInit == [ret |-> "none", cms |-> TRUE, cmm |-> TRUE, cmq |-> TRUE,
             sets |-> <<>>, t_id |-> 0]

\* the window taken as over one second early
TrackingExpiredEarly(rcd, now) == now >= rcd.init_time + rcd.period

\* now > (init_time + period)
TrackingExpired(rcd, now) == now > rcd.init_time + rcd.period

\* the max_msgs check that never stops the walk at an explicit limit
RcptCheckNoStop(rcd, st, cur_msgs) ==
    IF rcd.max_msgs > 0 /\ cur_msgs >= rcd.max_msgs
    THEN [st EXCEPT !.ret = "reject_exceed_max_msgs"]
    ELSE st

\* the max_msgs check that lets the count reach one past the limit
RcptCheckOffByOne(rcd, st, cur_msgs) ==
    IF rcd.max_msgs > 0 /\ cur_msgs > rcd.max_msgs
    THEN [st EXCEPT !.ret = "reject_exceed_max_msgs"]
    ELSE IF rcd.max_msgs >= 0 THEN [st EXCEPT !.cmm = FALSE] ELSE st

\* protocol_state == 'RCPT' and continue_check_max_msgs
RcptCheck(rcd, st, cur_msgs) ==
    IF rcd.max_msgs > 0 /\ cur_msgs >= rcd.max_msgs
    THEN [st EXCEPT !.ret = "reject_exceed_max_msgs"]
    ELSE IF rcd.max_msgs >= 0 THEN [st EXCEPT !.cmm = FALSE] ELSE st

\* the assignments staged for one row once neither check rejected
StagedTracking(rcd, size, tracking_expired, now) ==
    (IF tracking_expired
     THEN <<Upd("init_time", "set", now)>>
          \o (IF rcd.max_msgs # 0 THEN <<Upd("cur_msgs", "set", 1)>> ELSE <<>>)
          \o (IF rcd.max_quota # 0 THEN <<Upd("cur_quota", "set", size)>> ELSE <<>>)
     ELSE (IF rcd.max_msgs # 0 THEN <<Upd("cur_msgs", "inc", 1)>> ELSE <<>>)
          \o (IF rcd.max_quota # 0 THEN <<Upd("cur_quota", "inc", size)>> ELSE <<>>))
    \o <<Upd("last_time", "set", now)>>

\* the END-OF-MESSAGE checks with the quota compared before the message size
EomCheckQuotaFirst(rcd, st, size, cur_quota, tracking_expired, now) ==
    IF st.cmq /\ rcd.max_quota > 0 /\ cur_quota >= rcd.max_quota
    THEN [st EXCEPT !.ret = "reject_exceed_max_quota"]
    ELSE IF st.cms /\ rcd.msg_size > 0 /\ size > rcd.msg_size
    THEN [st EXCEPT !.ret = "reject_exceed_msg_size"]
    ELSE [st EXCEPT
            !.cms = IF st.cms /\ rcd.msg_size >= 0 THEN FALSE ELSE @,
            !.cmq = IF st.cmq /\ rcd.max_quota >= 0 THEN FALSE ELSE @,
            !.sets = (rcd.id :> StagedTracking(rcd, size, tracking_expired, now)) @@ @]

\* protocol_state == 'END-OF-MESSAGE' and (continue_check_msg_size or continue_check_max_quota)
EomCheck(rcd, st, size, cur_quota, tracking_expired, now) ==
    LET checkSize == st.cms
        checkQuota == st.cmq
        staged1 == IF checkSize /\ rcd.msg_size > 0
                   THEN <<Upd("total_msgs", "inc", 1)>> ELSE <<>>
        staged2 == IF checkQuota /\ rcd.max_quota > 0
                   THEN <<Upd("total_quota", "inc", size)>> ELSE <<>>
    IN IF checkSize /\ rcd.msg_size > 0 /\ size > rcd.msg_size
       THEN [st EXCEPT !.ret = "reject_exceed_msg_size"]
       ELSE IF checkQuota /\ rcd.max_quota > 0 /\ cur_quota >= rcd.max_quota
       THEN [st EXCEPT !.ret = "reject_exceed_max_quota"]
       ELSE [st EXCEPT
               !.cms = IF checkSize /\ rcd.msg_size >= 0 THEN FALSE ELSE @,
               !.cmq = IF checkQuota /\ rcd.max_quota >= 0 THEN FALSE ELSE @,
               !.sets = (rcd.id :> (staged1 \o staged2
                                     \o StagedTracking(rcd, size, tracking_expired, now)))
                        @@ @]

\* one iteration that compares the stored counters, whether the window is
\* over or not
LoopBodyNoExpiry(rcd, st, protocol_state, size, now) ==
    IF rcd.period = 0
    THEN [st EXCEPT !.ret = "default", !.t_id = rcd.id]
    ELSE LET st1 == [st EXCEPT !.sets = (rcd.id :> <<>>) @@ @, !.t_id = rcd.id]
         IN IF protocol_state = "RCPT" /\ st1.cmm
            THEN RcptCheck(rcd, st1, rcd.cur_msgs)
            ELSE IF protocol_state = "END-OF-MESSAGE" /\ (st1.cms \/ st1.cmq)
            THEN EomCheck(rcd, st1, size, rcd.cur_quota, FALSE, now)
            ELSE st1

\* one iteration that skips a row without a period and goes on to the next row
LoopBodySkipNoPeriod(rcd, st, protocol_state, size, now) ==
    IF rcd.period = 0
    THEN st
    ELSE LET tracking_expired == TrackingExpired(rcd, now)
             cur_msgs == IF tracking_expired THEN 0 ELSE rcd.cur_msgs
             cur_quota == IF tracking_expired THEN 0 ELSE rcd.cur_quota
             st1 == [st EXCEPT !.sets = (rcd.id :> <<>>) @@ @, !.t_id = rcd.id]
         IN IF protocol_state = "RCPT" /\ st1.cmm
            THEN RcptCheck(rcd, st1, cur_msgs)
            ELSE IF protocol_state = "END-OF-MESSAGE" /\ (st1.cms \/ st1.cmq)
            THEN EomCheck(rcd, st1, size, cur_quota, tracking_expired, now)
            ELSE st1

\* one iteration of `for rcd in sql_records`
LoopBody(rcd, st, protocol_state, size, now) ==
    IF rcd.period = 0
    THEN [st EXCEPT !.ret = "default", !.t_id = rcd.id]
    ELSE LET tracking_expired == TrackingExpired(rcd, now)
             cur_msgs == IF tracking_expired THEN 0 ELSE rcd.cur_msgs
             cur_quota == IF tracking_expired THEN 0 ELSE rcd.cur_quota
             st1 == [st EXCEPT !.sets = (rcd.id :> <<>>) @@ @, !.t_id = rcd.id]
         IN IF protocol_state = "RCPT" /\ st1.cmm
            THEN RcptCheck(rcd, st1, cur_msgs)
            ELSE IF protocol_state = "END-OF-MESSAGE" /\ (st1.cms \/ st1.cmq)
            THEN EomCheck(rcd, st1, size, cur_quota, tracking_expired, now)
            ELSE st1

RECURSIVE Walk(_, _, _, _, _, _)
Walk(rows, i, st, protocol_state, size, now) ==
    IF i > Len(rows) \/ st.ret # "none" THEN st
    ELSE Walk(rows, i + 1, LoopBody(rows[i], st, protocol_state, size, now),
              protocol_state, size, now)

(***************************************************************************)
(* What an UPDATE of one row with a list of staged assignments would       *)
(* store.  The code never gets as far as sending one (see Commit); these   *)
(* definitions serve the variants of the code the properties are tested    *)
(* against.  total_msgs and total_quota are no columns of a row.           *)
(***************************************************************************)
ApplyUpd(row, u) ==
    IF u.col \notin DOMAIN row THEN row
    ELSE [row EXCEPT ![u.col] = IF u.op = "set" THEN u.val ELSE @ + u.val]

RECURSIVE ApplyUpds(_, _, _)
ApplyUpds(row, us, i) ==
    IF i > Len(us) THEN row ELSE ApplyUpds(ApplyUpd(row, us[i]), us, i + 1)

ApplySets(table, sets) ==
    [id \in DOMAIN table |->
        IF id \in DOMAIN sets THEN ApplyUpds(table[id], sets[id], 1) ELSE table[id]]

\* an UPDATE that stores every staged assignment as it is written, the
\* assignments to total_msgs and total_quota included
ApplyUpdAnyColumn(row, u) ==
    [c \in DOMAIN row \cup {u.col} |->
        IF c # u.col THEN row[c]
        ELSE IF u.op = "set" THEN u.val
        ELSE IF c \in DOMAIN row THEN row[c] + u.val ELSE u.val]

RECURSIVE ApplyUpdsAnyColumn(_, _, _)
ApplyUpdsAnyColumn(row, us, i) ==
    IF i > Len(us) THEN row
    ELSE ApplyUpdsAnyColumn(ApplyUpdAnyColumn(row, us[i]), us, i + 1)

\* the UPDATE loop sending each row's staged assignments, whatever their column
CommitAnyColumn(table, sets, protocol_state, t_id) ==
    IF protocol_state = "END-OF-MESSAGE" /\ DOMAIN sets # {}
    THEN [table |-> [id \in DOMAIN table |->
                       IF id \in DOMAIN sets
                       THEN ApplyUpdsAnyColumn(table[id], sets[id], 1) ELSE table[id]],
          raised |-> FALSE]
    ELSE [table |-> table, raised |-> FALSE]

\* the UPDATE loop sending each row's staged assignments to that row
CommitApplied(table, sets, protocol_state, t_id) ==
    IF protocol_state = "END-OF-MESSAGE" /\ DOMAIN sets # {}
    THEN [table |-> ApplySets(table, sets), raised |-> FALSE]
    ELSE [table |-> table, raised |-> FALSE]

(***************************************************************************)
(* The UPDATE loop.  `for update_set in sql_update_sets` iterates over the *)
(* keys of the dict, the integer ids, and ','.join(update_set) of an       *)
(* integer raises TypeError in the first iteration, before the first       *)
(* conn.execute: no UPDATE is ever sent, and the exception leaves          *)
(* apply_throttle.                                                         *)
(***************************************************************************)
Commit(table, sets, protocol_state, t_id) ==
    IF protocol_state = "END-OF-MESSAGE" /\ DOMAIN sets # {}
    THEN [table |-> table, raised |-> TRUE]
    ELSE [table |-> table, raised |-> FALSE]

\* apply_throttle storing the zeroed counters of an expired row where it
\* resets them for the comparison
apply_throttle_store_reset(table, rows, protocol_state, size, now) ==
    LET zeroed == [id \in DOMAIN table |->
                     IF /\ \E i \in 1..Len(rows) : rows[i].id = id
                        /\ table[id].period # 0
                        /\ TrackingExpired(table[id], now)
                     THEN [table[id] EXCEPT !.cur_msgs = 0, !.cur_quota = 0]
                     ELSE table[id]]
    IN IF rows = <<>>
       THEN [action |-> "default", table |-> table]
       ELSE LET w == Walk(rows, 1, WalkInit, protocol_state, size, now)
            IN [action |-> IF w.ret # "none" THEN w.ret ELSE "default", table |-> zeroed]

\* apply_throttle sending each row's UPDATE inside the loop, as soon as the
\* row has passed its own checks
apply_throttle_update_in_loop(table, rows, protocol_state, size, now) ==
    IF rows = <<>>
    THEN [action |-> "default", table |-> table]
    ELSE LET w == Walk(rows, 1, WalkInit, protocol_state, size, now)
         IN [action |-> IF w.ret # "none" THEN w.ret ELSE "default",
             table |-> IF protocol_state = "END-OF-MESSAGE"
                       THEN ApplySets(table, w.sets) ELSE table]

apply_throttle(table, rows, protocol_state, size, now) ==
    IF rows = <<>>
    THEN [action |-> "default", table |-> table]
    ELSE LET w == Walk(rows, 1, WalkInit, protocol_state, size, now)
         IN IF w.ret # "none"
            THEN [action |-> w.ret, table |-> table]
            ELSE LET c == Commit(table, w.sets, protocol_state, w.t_id)
                 IN [action |-> IF c.raised THEN "TypeError" ELSE "default",
                     table |-> c.table]

(***************************************************************************)
(* convert_throttle_setting_to_dict.  A string is a sequence of            *)
(* characters; the characters of the model are a letter, a digit, the      *)
(* minus sign and the two separators.  A dict is a function from keys to   *)
(* values, and a value is an integer (IntValue) or a string (StrValue).    *)
(* The result of a call is NotCalled before the call, Returned(sd) when    *)
(* the call returns sd, and Raised("ValueError") when the tuple            *)
(* assignment `key, value = item.split(':')` fails.                        *)
(***************************************************************************)
Chars == {"k", "1", "-", ":", ";"}

RECURSIVE Strings(_)
Strings(n) ==
    IF n = 0 THEN {<<>>}
    ELSE LET shorter == Strings(n - 1)
         IN shorter \cup {Append(w, c) : w \in {x \in shorter : Len(x) = n - 1}, c \in Chars}

IntValue(n) == [is_int |-> TRUE, n |-> n, str |-> <<>>]
StrValue(str) == [is_int |-> FALSE, n |-> 0, str |-> str]

NotCalled == [status |-> "none", sd |-> <<>>]
Returned(sd) == [status |-> "returned", sd |-> sd]
Raised(exc) == [status |-> exc, sd |-> <<>>]

\* str.split(sep): the pieces of str between the occurrences of sep
RECURSIVE SplitFrom(_, _, _, _, _)
SplitFrom(str, sep, i, piece, pieces) ==
    IF i > Len(str) THEN Append(pieces, piece)
    ELSE IF str[i] = sep THEN SplitFrom(str, sep, i + 1, <<>>, Append(pieces, piece))
    ELSE SplitFrom(str, sep, i + 1, Append(piece, str[i]), pieces)

Split(str, sep) == SplitFrom(str, sep, 1, <<>>, <<>>)

\* sep in str
Contains(str, sep) == \E i \in 1..Len(str) : str[i] = sep

\* int(value) succeeds: an optional sign and one or more digits
IsInteger(value) ==
    LET digits == IF value # <<>> /\ value[1] = "-" THEN Tail(value) ELSE value
    IN digits # <<>> /\ \A i \in 1..Len(digits) : digits[i] = "1"

RECURSIVE DigitsValue(_, _, _)
DigitsValue(digits, i, n) ==
    IF i > Len(digits) THEN n ELSE DigitsValue(digits, i + 1, 10 * n + 1)

\* int(value)
ToInteger(value) ==
    IF value[1] = "-" THEN 0 - DigitsValue(Tail(value), 1, 0) ELSE DigitsValue(value, 1, 0)

\* the body of `for item in setting_items` for an item that unpacks
StoreItem(sd, key, value, as_integer) ==
    (key :> (IF as_integer /\ IsInteger(value) THEN IntValue(ToInteger(value))
             ELSE StrValue(value))) @@ sd

\* the loop dropping every fragment that is not one key and one value
RECURSIVE ConvertItemsSkipping(_, _, _, _)
ConvertItemsSkipping(items, i, sd, as_integer) ==
    IF i > Len(items) THEN Returned(sd)
    ELSE LET pieces == Split(items[i], ":")
         IN IF items[i] = <<>> \/ Len(pieces) # 2
            THEN ConvertItemsSkipping(items, i + 1, sd, as_integer)
            ELSE ConvertItemsSkipping(items, i + 1,
                                      StoreItem(sd, pieces[1], pieces[2], as_integer),
                                      as_integer)

\* for item in setting_items
RECURSIVE ConvertItems(_, _, _, _)
ConvertItems(items, i, sd, as_integer) ==
    IF i > Len(items) THEN Returned(sd)
    ELSE LET pieces == Split(items[i], ":")
         IN IF items[i] = <<>> THEN ConvertItems(items, i + 1, sd, as_integer)
            ELSE IF Len(pieces) # 2 THEN Raised("ValueError")
            ELSE ConvertItems(items, i + 1,
                              StoreItem(sd, pieces[1], pieces[2], as_integer), as_integer)

convert_throttle_setting_to_dict(str, as_integer) ==
    IF str = <<>> THEN Returned(<<>>)
    ELSE LET setting_items == SelectSeq(Split(str, ";"), LAMBDA st : Contains(st, ":"))
         IN ConvertItems(setting_items, 1, <<>>, as_integer)

(***************************************************************************)
(* The arguments of a request.  sender and recipient are the candidate     *)
(* addresses of the two identities (possible_addrs: the addresses derived  *)
(* from the identity and the client address); sender_domain and            *)
(* recipient_domain are the kwargs of these names; bypass_mynetworks is    *)
(* settings.THROTTLE_BYPASS_MYNETWORKS as the request finds it and         *)
(* trusted_client is is_trusted_client(client_address).                    *)
(***************************************************************************)
SenderKeys == {"user@a.com", "@a.com"}
RcptKeys == {"user@b.com"}

Sizes(protocol_state) == IF protocol_state = "RCPT" THEN {0} ELSE {1, MaxSize}

\* requests between two domains from a client that is not trusted
KwargsThrottled ==
    {[sender |-> s, recipient |-> r, protocol_state |-> ps, size |-> sz,
      sender_domain |-> "a.com", recipient_domain |-> "b.com",
      bypass_mynetworks |-> FALSE, trusted_client |-> FALSE] :
        s \in SUBSET SenderKeys, r \in SUBSET RcptKeys,
        ps \in SMTP_PROTOCOL_STATE, sz \in {0, 1, MaxSize}}
    \ {k \in [sender : SUBSET SenderKeys, recipient : SUBSET RcptKeys,
              protocol_state : SMTP_PROTOCOL_STATE, size : {0, 1, MaxSize},
              sender_domain : {"a.com"}, recipient_domain : {"b.com"},
              bypass_mynetworks : {FALSE}, trusted_client : {FALSE}] :
         k.size \notin Sizes(k.protocol_state)}

\* and the requests within one domain, with the setting on, or from a trusted
\* client, for identities that have rows
KwargsAll ==
    KwargsThrottled \cup
    {[k EXCEPT !.recipient_domain = d[1], !.bypass_mynetworks = d[2], !.trusted_client = d[3]] :
        k \in {x \in KwargsThrottled : x.sender = SenderKeys /\ x.recipient = RcptKeys},
        d \in {<<"a.com", FALSE, FALSE>>, <<"b.com", TRUE, TRUE>>,
               <<"b.com", TRUE, FALSE>>, <<"b.com", FALSE, TRUE>>}}

NoKwargs == [sender |-> {}, recipient |-> {}, protocol_state |-> "RCPT", size |-> 0,
             sender_domain |-> "a.com", recipient_domain |-> "b.com",
             bypass_mynetworks |-> FALSE, trusted_client |-> FALSE]

Table(st) == IF st = "sender" THEN throttle_sender ELSE throttle_rcpt
User(p) == IF stage[p] = "sender" THEN kwargs[p].sender ELSE kwargs[p].recipient

(***************************************************************************)
(* Actions.                                                                *)
(***************************************************************************)
\* time passes
Tick ==
    /\ clock < MaxTime
    /\ clock' = clock + 1
    /\ UNCHANGED <<tables, pc, stage, kwargs, sql_records, action, conversion>>

\* restriction without its two early returns
RestrictionNoBypass(p, inputs) ==
    /\ pc[p] = "idle"
    /\ \E k \in inputs : kwargs' = [kwargs EXCEPT ![p] = k]
    /\ pc' = [pc EXCEPT ![p] = "select"]
    /\ stage' = [stage EXCEPT ![p] = "sender"]
    /\ action' = [action EXCEPT ![p] = "default"]
    /\ UNCHANGED <<tables, clock, sql_records, conversion>>

\* restriction is called; it returns the default action at once if
\* sender_domain == recipient_domain, or if THROTTLE_BYPASS_MYNETWORKS is set
\* and the client is trusted
Restriction(p, inputs) ==
    /\ pc[p] = "idle"
    /\ \E k \in inputs :
         /\ kwargs' = [kwargs EXCEPT ![p] = k]
         /\ pc' = [pc EXCEPT ![p] =
                     IF k.sender_domain = k.recipient_domain THEN "done"
                     ELSE IF k.bypass_mynetworks /\ k.trusted_client THEN "done"
                     ELSE "select"]
    /\ stage' = [stage EXCEPT ![p] = "sender"]
    /\ action' = [action EXCEPT ![p] = "default"]
    /\ UNCHANGED <<tables, clock, sql_records, conversion>>

\* apply_throttle: conn.execute(sql); qr.fetchall()
Select(p) ==
    /\ pc[p] = "select"
    /\ \E rows \in OrderedRows(Table(stage[p]), User(p)) :
         sql_records' = [sql_records EXCEPT ![p] = rows]
    /\ pc' = [pc EXCEPT ![p] = "eval"]
    /\ UNCHANGED <<tables, clock, stage, kwargs, action, conversion>>

\* apply_throttle: the walk over sql_records and the UPDATE loop; then
\* restriction's test of the returned action
Evaluate(p) ==
    /\ pc[p] = "eval"
    /\ LET r == apply_throttle(Table(stage[p]), sql_records[p],
                               kwargs[p].protocol_state, kwargs[p].size, clock)
       IN /\ action' = [action EXCEPT ![p] = r.action]
          /\ IF stage[p] = "sender"
             THEN throttle_sender' = r.table /\ UNCHANGED throttle_rcpt
             ELSE throttle_rcpt' = r.table /\ UNCHANGED throttle_sender
          /\ IF stage[p] = "sender" /\ r.action = "default"
             THEN /\ stage' = [stage EXCEPT ![p] = "rcpt"]
                  /\ pc' = [pc EXCEPT ![p] = "select"]
             ELSE /\ pc' = [pc EXCEPT ![p] = "done"]
                  /\ UNCHANGED stage
    /\ UNCHANGED <<clock, kwargs, sql_records, conversion>>

\* the request is answered; the process is free for the next request
Return(p) ==
    /\ pc[p] = "done"
    /\ pc' = [pc EXCEPT ![p] = "idle"]
    /\ stage' = [stage EXCEPT ![p] = "sender"]
    /\ kwargs' = [kwargs EXCEPT ![p] = NoKwargs]
    /\ sql_records' = [sql_records EXCEPT ![p] = <<>>]
    /\ action' = [action EXCEPT ![p] = "default"]
    /\ UNCHANGED <<tables, clock, conversion>>

(***************************************************************************)
(* Initial states.                                                         *)
(***************************************************************************)
\* the limits and counters of a row that has a period; a row without a period
\* returns before any other column is read, and has one setting
RowSettings(id, user, priority, init_time, counters) ==
    {Row(id, user, priority, Period, mm, mq, ms, c[1], c[2], init_time) :
        mm \in Limits(MaxMsgs), mq \in Limits(MaxSize), ms \in Limits(MaxSize - 1),
        c \in counters}
    \cup {Row(id, user, priority, 0, MaxMsgs, MaxSize, MaxSize - 1, MaxMsgs, MaxSize, init_time)}

\* the clock starts at the latest init_time of the rows
InitProcs ==
    /\ clock = 1
    /\ pc = [p \in Procs |-> "idle"]
    /\ stage = [p \in Procs |-> "sender"]
    /\ kwargs = [p \in Procs |-> NoKwargs]
    /\ sql_records = [p \in Procs |-> <<>>]
    /\ action = [p \in Procs |-> "default"]

\* no settings string is being converted
InitNoSetting ==
    /\ setting = <<>>
    /\ value_is_integer = TRUE
    /\ converted = NotCalled

Init ==
    /\ InitProcs
    /\ InitNoSetting
    /\ \E hi \in RowSettings(1, "user@a.com", 8, 0, {<<MaxMsgs - 1, 0>>, <<MaxMsgs, MaxSize>>}),
          lo \in RowSettings(2, "@a.com", 5, 1, {<<MaxMsgs, MaxSize>>}) :
         throttle_sender = (1 :> hi) @@ (2 :> lo)
    /\ throttle_rcpt = (1 :> Row(1, "user@b.com", 8, Period, MaxMsgs, MaxSize, MaxSize - 1,
                                 MaxMsgs, MaxSize, 1))

Next ==
    \/ Tick
    \/ \E p \in SeqProcs :
         \/ Restriction(p, KwargsThrottled)
         \/ Select(p)
         \/ Evaluate(p)
         \/ Return(p)

Spec == Init /\ [][Next]_vars

(***************************************************************************)
(* Concurrent requests: two processes, of which each may be anywhere in    *)
(* its request while the other runs, over a small set of tables.  The two  *)
(* sender rows have the same priority, so the SELECT may return them in    *)
(* either order.                                                           *)
(***************************************************************************)
InitConc ==
    /\ InitProcs
    /\ InitNoSetting
    /\ \E c \in 0..MaxMsgs :
         throttle_sender =
            (1 :> Row(1, "user@a.com", 8, Period, MaxMsgs, MaxSize, MaxSize - 1, c, 0, 0))
            @@ (2 :> Row(2, "@a.com", 8, Period, -1, MaxSize, -1, 0, 0, 1))
    /\ throttle_rcpt = (1 :> Row(1, "user@b.com", 8, Period, MaxMsgs, MaxSize, MaxSize - 1,
                                 MaxMsgs, MaxSize, 1))

NextConc ==
    \/ Tick
    \/ \E p \in Procs :
         \/ Restriction(p, KwargsAll)
         \/ Select(p)
         \/ Evaluate(p)
         \/ Return(p)

SpecConc == InitConc /\ [][NextConc]_vars

(***************************************************************************)
(* Conversions of settings strings: every string of up to MaxLen           *)
(* characters, with and without value_is_integer, converted once.          *)
(***************************************************************************)
InitConvert ==
    /\ InitProcs
    /\ throttle_sender = <<>>
    /\ throttle_rcpt = <<>>
    /\ setting \in Strings(MaxLen)
    /\ value_is_integer \in BOOLEAN
    /\ converted = NotCalled

\* the call convert_throttle_setting_to_dict(setting, value_is_integer)
Convert ==
    /\ converted = NotCalled
    /\ converted' = convert_throttle_setting_to_dict(setting, value_is_integer)
    /\ UNCHANGED <<tables, clock, pc, stage, kwargs, sql_records, action,
                   setting, value_is_integer>>

NextConvert == Convert

SpecConvert == InitConvert /\ [][NextConvert]_vars

(***************************************************************************)
(* Properties.  A step of Evaluate by p is a step that takes p out of      *)
(* "eval"; before it sql_records[p] holds the fetched rows and clock the   *)
(* time the walk reads, after it action[p] holds what apply_throttle       *)
(* returned.                                                               *)
(***************************************************************************)
EvalOf(p) == pc[p] = "eval" /\ pc'[p] # "eval"
Phase(p) == kwargs[p].protocol_state
NumRows(p) == Len(sql_records[p])

\* the state after the sender check of p has passed: sql_records[p] still
\* holds the sender rows, action[p] the sender verdict
SenderPassed(p) == pc[p] = "select" /\ stage[p] = "rcpt"

\* C1: a call of apply_throttle in the RCPT phase changes no field of any row
\* of throttle_sender or throttle_rcpt, whatever it fetched and returned.
C1_RcptNeverMutates ==
    [][\A p \in Procs : (EvalOf(p) /\ Phase(p) = "RCPT") => UNCHANGED tables]_vars

\* an RCPT call has passed a sender row whose stored count is at the limit,
\* which it can only do with the zeroed counters of an expired window; the row
\* still holds its count and its init_time
C1_Witness ==
    \E p \in Procs :
        /\ SenderPassed(p) /\ Phase(p) = "RCPT" /\ NumRows(p) >= 1
        /\ LET r == sql_records[p][1]
           IN /\ r.period # 0 /\ r.max_msgs > 0 /\ r.cur_msgs >= r.max_msgs
              /\ throttle_sender[r.id] = r

\* C2: an END-OF-MESSAGE call that returns reject_exceed_msg_size or
\* reject_exceed_max_quota changes no field of any row, the rows walked before
\* the rejecting row included.
C2_EomRejectNoMutation ==
    [][\A p \in Procs :
          (/\ EvalOf(p) /\ Phase(p) = "END-OF-MESSAGE"
           /\ action'[p] \in {"reject_exceed_msg_size", "reject_exceed_max_quota"})
          => UNCHANGED tables]_vars

\* an END-OF-MESSAGE call was rejected for quota by its second row, after the
\* first row (which defers max_quota) had passed and had its tracking staged
C2_Witness ==
    \E p \in Procs :
        /\ pc[p] = "done" /\ stage[p] = "sender" /\ Phase(p) = "END-OF-MESSAGE"
        /\ action[p] = "reject_exceed_max_quota"
        /\ NumRows(p) = 2
        /\ sql_records[p][1].period # 0
        /\ sql_records[p][1].max_quota = -1
        /\ sql_records[p][1].max_msgs > 0

\* C3: an END-OF-MESSAGE call that is not rejected, over exactly one row with a
\* period and positive max_msgs, max_quota and msg_size, is allowed and leaves
\* the row with cur_msgs + 1, cur_quota + size, the same init_time and
\* last_time = now if its window is open, and with init_time = now,
\* cur_msgs = 1, cur_quota = size and last_time = now if its window is over.
C3_SingleRowTracked ==
    [][\A p \in Procs :
          (/\ EvalOf(p) /\ Phase(p) = "END-OF-MESSAGE" /\ stage[p] = "sender"
           /\ NumRows(p) = 1
           /\ sql_records[p][1].period # 0
           /\ sql_records[p][1].max_msgs > 0
           /\ sql_records[p][1].max_quota > 0
           /\ sql_records[p][1].msg_size > 0
           /\ action'[p] \notin Rejects)
          => LET old == throttle_sender[sql_records[p][1].id]
                 new == throttle_sender'[sql_records[p][1].id]
                 size == kwargs[p].size
             IN /\ action'[p] = "default"
                /\ new.last_time = clock
                /\ IF clock > old.init_time + old.period
                   THEN new.init_time = clock /\ new.cur_msgs = 1 /\ new.cur_quota = size
                   ELSE /\ new.init_time = old.init_time
                        /\ new.cur_msgs = old.cur_msgs + 1
                        /\ new.cur_quota = old.cur_quota + size]_vars

C5_NoLostUpdate ==
    [][\A p \in Procs :
          (/\ EvalOf(p) /\ Phase(p) = "END-OF-MESSAGE" /\ stage[p] = "sender"
           /\ NumRows(p) >= 1
           /\ \A i \in 1..NumRows(p) : sql_records[p][i].period # 0
           /\ sql_records[p][1].max_msgs # 0
           /\ action'[p] \notin Rejects)
          => LET old == throttle_sender[sql_records[p][1].id]
                 new == throttle_sender'[sql_records[p][1].id]
             IN IF clock > old.init_time + old.period
                THEN new.cur_msgs = 1
                ELSE /\ new.cur_msgs = old.cur_msgs + 1
                     /\ old.max_quota # 0 => new.cur_quota = old.cur_quota + kwargs[p].size]_vars

(***************************************************************************)
(* The resolution of a limit by priority, stated apart from the walk: the  *)
(* index in the fetched rows of the first row whose value for the column   *)
(* is not -1 (0 if there is none), and the counters a comparison at time   *)
(* now uses.                                                               *)
(***************************************************************************)
MinOf(S) == CHOOSE x \in S : \A y \in S : x <= y

Authoritative(rows, col) ==
    LET S == {i \in 1..Len(rows) : rows[i][col] # -1}
    IN IF S = {} THEN 0 ELSE MinOf(S)

\* the index of the first row without a period (0 if every row has one)
FirstNoPeriod(rows) ==
    LET S == {i \in 1..Len(rows) : rows[i].period = 0}
    IN IF S = {} THEN 0 ELSE MinOf(S)

\* every row up to and including index a has a period
PeriodsUpTo(rows, a) == \A i \in 1..a : rows[i].period # 0

Effective(row, col, now) == IF now >= row.init_time + row.period + 1 THEN 0 ELSE row[col]

\* the authoritative row of the column exists, is reached, has an explicit
\* limit and the limit is exceeded
ExceedsMsgs(rows, now) ==
    LET a == Authoritative(rows, "max_msgs")
    IN /\ a # 0 /\ PeriodsUpTo(rows, a) /\ rows[a].max_msgs > 0
       /\ Effective(rows[a], "cur_msgs", now) >= rows[a].max_msgs

ExceedsQuota(rows, now) ==
    LET a == Authoritative(rows, "max_quota")
    IN /\ a # 0 /\ PeriodsUpTo(rows, a) /\ rows[a].max_quota > 0
       /\ Effective(rows[a], "cur_quota", now) >= rows[a].max_quota

ExceedsSize(rows, size) ==
    LET a == Authoritative(rows, "msg_size")
    IN a # 0 /\ PeriodsUpTo(rows, a) /\ rows[a].msg_size > 0 /\ size > rows[a].msg_size

\* C6: each limit is resolved on its own over the rows in descending priority:
\* a reject for a limit comes from the first row whose value for that limit is
\* not -1 and from no other row (so from no row at all when every row has -1),
\* and a -1 hands the limit on to the next row: when that first row is reached
\* and its limit is exceeded, the call is rejected.
C6_LimitsResolvedIndependently ==
    [][\A p \in Procs :
          EvalOf(p) =>
            LET rows == sql_records[p]
                size == kwargs[p].size
            IN /\ action'[p] = "reject_exceed_max_msgs"
                    => Phase(p) = "RCPT" /\ ExceedsMsgs(rows, clock)
               /\ action'[p] = "reject_exceed_msg_size"
                    => Phase(p) = "END-OF-MESSAGE" /\ ExceedsSize(rows, size)
               /\ action'[p] = "reject_exceed_max_quota"
                    => Phase(p) = "END-OF-MESSAGE" /\ ExceedsQuota(rows, clock)
               /\ (Phase(p) = "RCPT" /\ ExceedsMsgs(rows, clock))
                    => action'[p] = "reject_exceed_max_msgs"
               /\ (Phase(p) = "END-OF-MESSAGE" /\ ExceedsSize(rows, size))
                    => action'[p] \in {"reject_exceed_msg_size", "reject_exceed_max_quota"}
               /\ (Phase(p) = "END-OF-MESSAGE" /\ ExceedsQuota(rows, clock))
                    => action'[p] \in {"reject_exceed_msg_size", "reject_exceed_max_quota"}]_vars

\* an END-OF-MESSAGE call over two rows has passed although the second row's
\* message-size limit is exceeded and its quota is used up: the first row is
\* final for both (msg_size 0, and a max_quota not reached or unlimited) while
\* it defers max_msgs
C6_Witness ==
    \E p \in Procs :
        /\ pc[p] = "done" /\ stage[p] = "sender" /\ Phase(p) = "END-OF-MESSAGE"
        /\ action[p] \notin Rejects
        /\ NumRows(p) = 2
        /\ sql_records[p][1].msg_size = 0 /\ sql_records[p][1].max_quota >= 0
        /\ sql_records[p][1].max_msgs = -1
        /\ sql_records[p][2].period # 0
        /\ sql_records[p][2].msg_size > 0 /\ kwargs[p].size > sql_records[p][2].msg_size
        /\ sql_records[p][2].max_quota > 0
        /\ sql_records[p][2].cur_quota >= sql_records[p][2].max_quota
        /\ clock <= sql_records[p][2].init_time + sql_records[p][2].period

\* C7: for the first fetched row, with init_time T0 and period P > 0: up to
\* and at now = T0 + P the comparisons use the stored cur_msgs and cur_quota
\* (the call is rejected exactly when the stored counter has reached the
\* limit); at now = T0 + P + 1 and later they use 0, so a positive limit is
\* never reached.
C7_WindowBoundary ==
    [][\A p \in Procs :
          (EvalOf(p) /\ NumRows(p) >= 1 /\ sql_records[p][1].period > 0) =>
            LET r == sql_records[p][1]
                size == kwargs[p].size
                open == clock <= r.init_time + r.period
                over == clock >= r.init_time + r.period + 1
            IN /\ (Phase(p) = "RCPT" /\ r.max_msgs > 0)
                    => /\ open => (action'[p] = "reject_exceed_max_msgs"
                                     <=> r.cur_msgs >= r.max_msgs)
                       /\ over => action'[p] # "reject_exceed_max_msgs"
               /\ (/\ Phase(p) = "END-OF-MESSAGE" /\ r.max_quota > 0
                   /\ ~(r.msg_size > 0 /\ size > r.msg_size))
                    => /\ open => (action'[p] = "reject_exceed_max_quota"
                                     <=> r.cur_quota >= r.max_quota)
                       /\ over => action'[p] # "reject_exceed_max_quota"]_vars

\* one RCPT request shows both sides of the boundary.  Its sender check has
\* passed a row whose stored count is at the limit, so that row was walked
\* after T0 + P, and the clock reads T0 + P + 1 of that row; its recipient
\* check was then rejected by a row whose window is open, and the clock reads
\* T0 + P of that row: the first was walked at its T0 + P + 1, the second at
\* its T0 + P.
C7_Witness ==
    \E p \in Procs :
        /\ pc[p] = "done" /\ stage[p] = "rcpt" /\ Phase(p) = "RCPT"
        /\ action[p] = "reject_exceed_max_msgs"
        /\ clock = sql_records[p][1].init_time + sql_records[p][1].period
        /\ "user@a.com" \in kwargs[p].sender
        /\ throttle_sender[1].period > 0 /\ throttle_sender[1].max_msgs > 0
        /\ throttle_sender[1].cur_msgs >= throttle_sender[1].max_msgs
        /\ clock = throttle_sender[1].init_time + throttle_sender[1].period + 1

\* C8: an RCPT call whose fetched rows all have a period returns
\* reject_exceed_max_msgs exactly when the first row whose max_msgs is not -1
\* has max_msgs > 0 and an effective cur_msgs (0 if its window is over) that
\* has reached max_msgs; otherwise it returns allow.
C8_RcptVerdict ==
    [][\A p \in Procs :
          (/\ EvalOf(p) /\ Phase(p) = "RCPT"
           /\ \A i \in 1..NumRows(p) : sql_records[p][i].period # 0)
          => LET rows == sql_records[p]
                 a == Authoritative(rows, "max_msgs")
             IN action'[p] =
                  IF /\ a # 0
                     /\ rows[a].max_msgs > 0
                     /\ Effective(rows[a], "cur_msgs", clock) >= rows[a].max_msgs
                  THEN "reject_exceed_max_msgs"
                  ELSE "default"]_vars

\* an RCPT call over two rows was rejected by the second row, the first row
\* deferring max_msgs while it is final for the two other limits
C8_Witness ==
    \E p \in Procs :
        /\ pc[p] = "done" /\ stage[p] = "sender" /\ Phase(p) = "RCPT"
        /\ action[p] = "reject_exceed_max_msgs"
        /\ NumRows(p) = 2
        /\ sql_records[p][1].max_msgs = -1
        /\ sql_records[p][1].msg_size >= 0 /\ sql_records[p][1].max_quota >= 0
        /\ sql_records[p][2].cur_msgs >= sql_records[p][2].max_msgs

\* C9 as claimed: in an END-OF-MESSAGE call, whenever the first row whose
\* msg_size is not -1 has msg_size > 0 and the message is larger, the call
\* returns reject_exceed_msg_size, whatever the other rows and limits hold.
C9_SizeRejectsRegardless ==
    [][\A p \in Procs :
          (/\ EvalOf(p) /\ Phase(p) = "END-OF-MESSAGE"
           /\ LET a == Authoritative(sql_records[p], "msg_size")
              IN /\ a # 0
                 /\ sql_records[p][a].msg_size > 0
                 /\ kwargs[p].size > sql_records[p][a].msg_size)
          => action'[p] = "reject_exceed_msg_size"]_vars

\* a row fetched before index a is the first whose max_quota is not -1, and
\* its quota is used up
QuotaExceededAbove(rows, a, now) ==
    LET q == Authoritative(rows, "max_quota")
    IN /\ q # 0 /\ q < a /\ rows[q].max_quota > 0
       /\ Effective(rows[q], "cur_quota", now) >= rows[q].max_quota

\* C9 as amended: when moreover every row fetched up to that row has a period,
\* the call is rejected: with reject_exceed_msg_size, whatever max_msgs and
\* cur_msgs hold anywhere and whatever the quota of that row and of the rows
\* after it, unless a row fetched before it decides max_quota with its quota
\* used up, and then with reject_exceed_max_quota.
C9_SizeRejectsUnlessQuotaAbove ==
    [][\A p \in Procs :
          (/\ EvalOf(p) /\ Phase(p) = "END-OF-MESSAGE"
           /\ ExceedsSize(sql_records[p], kwargs[p].size))
          => LET rows == sql_records[p]
                 a == Authoritative(rows, "msg_size")
             IN action'[p] = IF QuotaExceededAbove(rows, a, clock)
                             THEN "reject_exceed_max_quota"
                             ELSE "reject_exceed_msg_size"]_vars

\* an END-OF-MESSAGE call was rejected for the message size by its second row
\* although the quota of that row is used up as well
C9_Witness ==
    \E p \in Procs :
        /\ pc[p] = "done" /\ stage[p] = "sender" /\ Phase(p) = "END-OF-MESSAGE"
        /\ action[p] = "reject_exceed_msg_size"
        /\ NumRows(p) = 2
        /\ sql_records[p][1].msg_size = -1
        /\ sql_records[p][2].max_quota > 0
        /\ sql_records[p][2].cur_quota >= sql_records[p][2].max_quota
        /\ clock <= sql_records[p][2].init_time + sql_records[p][2].period

\* C10 as claimed: in both phases, if any fetched row has period 0 the call
\* returns allow and changes no row, whatever the other rows hold.
C10_NoPeriodAlwaysAllows ==
    [][\A p \in Procs :
          (EvalOf(p) /\ FirstNoPeriod(sql_records[p]) # 0)
          => action'[p] = "default" /\ UNCHANGED tables]_vars

\* C10 as amended: if a fetched row has period 0 the call changes no row, and
\* it returns allow unless a row fetched before the first row with period 0
\* rejects; it returns allow whenever the first fetched row has period 0.
C10_NoPeriodAllowsUnlessRejectedAbove ==
    [][\A p \in Procs :
          (EvalOf(p) /\ FirstNoPeriod(sql_records[p]) # 0)
          => LET z == FirstNoPeriod(sql_records[p])
                 above == SubSeq(sql_records[p], 1, z - 1)
                 rejected ==
                    IF Phase(p) = "RCPT"
                    THEN ExceedsMsgs(above, clock)
                    ELSE ExceedsSize(above, kwargs[p].size) \/ ExceedsQuota(above, clock)
             IN /\ UNCHANGED tables
                /\ rejected => action'[p] \in Rejects
                /\ ~rejected => action'[p] = "default"
                /\ z = 1 => action'[p] = "default"]_vars

\* an RCPT call has passed although its second row is at its limit in an open
\* window: the first row has no period
C10_Witness ==
    \E p \in Procs :
        /\ SenderPassed(p) /\ Phase(p) = "RCPT"
        /\ NumRows(p) = 2
        /\ sql_records[p][1].period = 0
        /\ sql_records[p][2].period # 0
        /\ sql_records[p][2].max_msgs > 0
        /\ sql_records[p][2].cur_msgs >= sql_records[p][2].max_msgs
        /\ clock <= sql_records[p][2].init_time + sql_records[p][2].period

\* C11: the sender check of a request runs first.  If it ends with a reject
\* the request is answered with that reject, and throttle_rcpt is neither
\* fetched nor written; in every other case the recipient check runs next,
\* and what the recipient check returns is the answer of the request.
C11_SenderThenRecipient ==
    [][\A p \in Procs :
          EvalOf(p) =>
             IF stage[p] = "sender"
             THEN IF action'[p] \in Rejects
                  THEN /\ pc'[p] = "done" /\ stage'[p] = "sender"
                       /\ UNCHANGED throttle_rcpt
                  ELSE /\ pc'[p] = "select" /\ stage'[p] = "rcpt"
             ELSE /\ pc'[p] = "done" /\ stage'[p] = "rcpt"
                  /\ action'[p] \in Rejects \cup {"default"}]_vars

\* the recipient check of p's request, made on the rows as they are stored and
\* at the present time, would end with a reject
RecipientWouldReject(p) ==
    \E rows \in OrderedRows(throttle_rcpt, kwargs[p].recipient) :
        apply_throttle(throttle_rcpt, rows, Phase(p), kwargs[p].size, clock).action \in Rejects

Tracked(row, size, now) ==
    [row EXCEPT
       !.init_time = IF TrackingExpired(row, now) THEN now ELSE @,
       !.cur_msgs = IF row.max_msgs = 0 THEN @
                    ELSE IF TrackingExpired(row, now) THEN 1 ELSE @ + 1,
       !.cur_quota = IF row.max_quota = 0 THEN @
                     ELSE IF TrackingExpired(row, now) THEN size ELSE @ + size,
       !.last_time = now]

\* C13: in an END-OF-MESSAGE call that is not rejected, over two or more rows
\* that all have a period, every fetched row with a non-zero limit is left
\* with its own tracking (the reset if its own window is over, the increments
\* if not, last_time = now), and every other row of the table is untouched.
C13_EveryRowTracked ==
    [][\A p \in Procs :
          (/\ EvalOf(p) /\ Phase(p) = "END-OF-MESSAGE" /\ stage[p] = "sender"
           /\ NumRows(p) >= 2
           /\ \A i \in 1..NumRows(p) : sql_records[p][i].period # 0
           /\ action'[p] \notin Rejects)
          => /\ \A i \in 1..NumRows(p) :
                   LET rcd == sql_records[p][i]
                   IN (rcd.max_msgs # 0 \/ rcd.max_quota # 0 \/ rcd.msg_size # 0)
                        => throttle_sender'[rcd.id] =
                              Tracked(throttle_sender[rcd.id], kwargs[p].size, clock)
             /\ \A id \in DOMAIN throttle_sender :
                   (\A i \in 1..NumRows(p) : sql_records[p][i].id # id)
                     => throttle_sender'[id] = throttle_sender[id]]_vars

\* the two conditions under which restriction returns before any check
SameDomain(k) == k.sender_domain = k.recipient_domain
TrustedBypass(k) == k.bypass_mynetworks /\ k.trusted_client

\* C14: a request whose sender_domain equals its recipient_domain, or that
\* comes from a trusted client while THROTTLE_BYPASS_MYNETWORKS is set, is
\* answered with the default action at the step that receives it: it fetches
\* no rows, it writes no row, and it never enters a check, in either phase.
C14_BypassSkipsThrottling ==
    [][\A p \in Procs :
          (SameDomain(kwargs'[p]) \/ TrustedBypass(kwargs'[p])) =>
             /\ pc'[p] = "done"
             /\ action'[p] = "default"
             /\ sql_records'[p] = <<>>
             /\ pc[p] = "idle" => UNCHANGED tables]_vars

\* a same-domain END-OF-MESSAGE request and an RCPT request of a trusted
\* client have both been answered, for a sender whose row has its count at
\* the limit and for a recipient whose row has its quota used up
C14_Witness ==
    \E p, q \in Procs :
        /\ pc[p] = "done" /\ SameDomain(kwargs[p]) /\ ~TrustedBypass(kwargs[p])
        /\ Phase(p) = "END-OF-MESSAGE"
        /\ pc[q] = "done" /\ TrustedBypass(kwargs[q]) /\ ~SameDomain(kwargs[q])
        /\ Phase(q) = "RCPT"
        /\ action[p] = "default" /\ action[q] = "default"
        /\ \E id \in Matching(throttle_sender, kwargs[q].sender) :
              /\ throttle_sender[id].max_msgs > 0
              /\ throttle_sender[id].cur_msgs >= throttle_sender[id].max_msgs
              /\ clock <= throttle_sender[id].init_time + throttle_sender[id].period
        /\ \E id \in Matching(throttle_rcpt, kwargs[p].recipient) :
              /\ throttle_rcpt[id].max_quota > 0
              /\ throttle_rcpt[id].cur_quota >= throttle_rcpt[id].max_quota
              /\ clock <= throttle_rcpt[id].init_time + throttle_rcpt[id].period

\* the columns of a row that hold its key and its limits
SettingColumns == {"id", "user", "priority", "period", "max_msgs", "max_quota", "msg_size"}
TrackingColumns == {"cur_msgs", "cur_quota", "init_time", "last_time"}

\* new has the rows of old, with the columns of old, and with the key and
\* the limits of old
SameFrame(old, new) ==
    /\ DOMAIN new = DOMAIN old
    /\ \A id \in DOMAIN old :
          /\ DOMAIN new[id] = SettingColumns \cup TrackingColumns
          /\ \A c \in SettingColumns : new[id][c] = old[id][c]

CountersKeptOrReset(old, new, now) ==
    \A id \in DOMAIN old :
        \/ /\ new[id].cur_msgs >= old[id].cur_msgs
           /\ new[id].cur_quota >= old[id].cur_quota
        \/ /\ now > old[id].init_time + old[id].period
           /\ new[id].init_time = now

C18_ConversionNeverFails ==
    converted # NotCalled =>
        converted = ConvertItemsSkipping(Split(setting, ";"), 1, <<>>, value_is_integer)

C20_ThrottleLifts ==
    [][\A p \in Procs :
          (EvalOf(p) /\ Phase(p) = "RCPT") =>
             /\ action'[p] = "reject_exceed_max_msgs" =>
                   LET a == Authoritative(sql_records[p], "max_msgs")
                   IN /\ a # 0
                      /\ clock <= sql_records[p][a].init_time + sql_records[p][a].period
             /\ (/\ NumRows(p) = 1
                 /\ clock > sql_records[p][1].init_time + sql_records[p][1].period)
                   => action'[p] = "default"]_vars

\* an RCPT call over a single row that has a period, max_msgs > 0 and its
\* count at the limit was allowed; the row rejects as long as its window is
\* open, so the call was made after the window was over
C20_Witness ==
    \E p \in Procs :
        /\ SenderPassed(p) /\ Phase(p) = "RCPT" /\ NumRows(p) = 1
        /\ sql_records[p][1].period > 0
        /\ sql_records[p][1].max_msgs > 0
        /\ sql_records[p][1].cur_msgs >= sql_records[p][1].max_msgs
        /\ clock > sql_records[p][1].init_time + sql_records[p][1].period

====
